---- MODULE Spec2Model ----
(***************************************************************************)
(* Model of the jaslang front end: the syntax parser that drives a DFA     *)
(* over the lexeme stream and builds the AST through a node stack, and     *)
(* the tree-walking evaluator.                                             *)
(***************************************************************************)
EXTENDS Integers, Sequences, FiniteSets, TLC

\* ------------------------------------------------------------------------
\* Bounds
\* ------------------------------------------------------------------------
MaxLexemes == 6
MaxTextLen == 2
MaxChildren == 2

\* ------------------------------------------------------------------------
\* Lexemes (lex package: kinds used by the parser)
\* ------------------------------------------------------------------------
LIdentifier == "identifier"
LParenOpen == "parenOpen"
LParenClose == "parenClose"
LQuoted == "quoted"
LSemiColon == "semicolon"
LNumber == "number"
LBoolTrue == "true"
LBoolFalse == "false"
LWhitespace == "whitespace"

start == "start"

literals == {LNumber, LQuoted, LBoolTrue, LBoolFalse}

LexemeKinds ==
  {LIdentifier, LParenOpen, LParenClose, LQuoted, LSemiColon, LNumber,
   LBoolTrue, LBoolFalse, LWhitespace}

\* Texts are sequences of one-character strings.
Digits == {"1"}
NumberChars == Digits \cup {"."}

RECURSIVE SeqsUpTo(_, _)
SeqsUpTo(S, n) ==
  IF n = 0 THEN {<<>>}
  ELSE LET shorter == SeqsUpTo(S, n - 1)
       IN shorter \cup {Append(s, c) : s \in {t \in shorter : Len(t) = n - 1}, c \in S}

NumberTexts == SeqsUpTo(NumberChars, MaxTextLen) \ {<<>>}
IdentifierTexts == {<<"p">>, <<"f">>}
QuotedTexts == {<<>>, <<"a">>}

TextsOf(kind) ==
  CASE kind = LNumber -> NumberTexts
    [] kind = LIdentifier -> IdentifierTexts
    [] kind = LQuoted -> QuotedTexts
    [] kind = LParenOpen -> {<<"(">>}
    [] kind = LParenClose -> {<<")">>}
    [] kind = LSemiColon -> {<<";">>}
    [] kind = LBoolTrue -> {<<"t", "r", "u", "e">>}
    [] kind = LBoolFalse -> {<<"f", "a", "l", "s", "e">>}
    [] kind = LWhitespace -> {<<" ">>}

MakeLexeme(value, kind, pos) == [Value |-> value, Type |-> kind, Start |-> pos]

NoLexeme == [Value |-> <<>>, Type |-> "none", Start |-> 0]

\* ------------------------------------------------------------------------
\* strconv.ParseFloat on decimal texts: at most one point, at least one
\* digit.  The value is the pair <<mantissa, scale>> (mantissa / 10^scale),
\* so that "1" and "1." denote the same number.
\* ------------------------------------------------------------------------
DigitVal(c) == IF c = "1" THEN 1 ELSE 0

RECURSIVE CountOf(_, _)
CountOf(text, S) ==
  IF text = <<>> THEN 0
  ELSE (IF Head(text) \in S THEN 1 ELSE 0) + CountOf(Tail(text), S)

RECURSIVE Mantissa(_, _)
Mantissa(text, acc) ==
  IF text = <<>> THEN acc
  ELSE IF Head(text) = "." THEN Mantissa(Tail(text), acc)
  ELSE Mantissa(Tail(text), acc * 10 + DigitVal(Head(text)))

RECURSIVE Scale(_)
Scale(text) ==
  IF text = <<>> THEN 0
  ELSE IF Head(text) = "." THEN Len(text) - 1
  ELSE Scale(Tail(text))

ParseFloat(text) ==
  IF /\ CountOf(text, NumberChars) = Len(text)
     /\ CountOf(text, {"."}) <= 1
     /\ CountOf(text, Digits) >= 1
  THEN [ok |-> TRUE, number |-> <<Mantissa(text, 0), Scale(text)>>]
  ELSE [ok |-> FALSE, number |-> <<0, 0>>]

\* ------------------------------------------------------------------------
\* AST nodes built by the parser
\* ------------------------------------------------------------------------
RootNode == [type |-> "Root", Statements |-> <<>>]
NewStatement == [type |-> "Statement", Children |-> <<>>]
NewFunctionCall(identifier) ==
  [type |-> "FunctionCall", Identifier |-> identifier, Children |-> <<>>]
NewString(value) == [type |-> "StringLiteral", Value |-> value]
NewBoolean(value) == [type |-> "BooleanLiteral", Value |-> value]
NewNumber(value) == [type |-> "NumberLiteral", Value |-> value]

ContainsChildren(node) == node.type \in {"Statement", "FunctionCall"}

KidsOf(node) ==
  IF node.type = "Root" THEN node.Statements
  ELSE IF ContainsChildren(node) THEN node.Children
  ELSE <<>>

\* The node stack holds references; a reference is the path of child
\* indices leading from the root to the node (<<>> is the Root itself).
RECURSIVE NodeAt(_, _)
NodeAt(node, path) ==
  IF path = <<>> THEN node
  ELSE NodeAt(KidsOf(node)[Head(path)], Tail(path))

RECURSIVE PushAt(_, _, _)
PushAt(node, path, child) ==
  IF path = <<>>
  THEN IF node.type = "Root"
       THEN [node EXCEPT !.Statements = Append(@, child)]
       ELSE [node EXCEPT !.Children = Append(@, child)]
  ELSE IF node.type = "Root"
       THEN [node EXCEPT !.Statements[Head(path)] = PushAt(@, Tail(path), child)]
       ELSE [node EXCEPT !.Children[Head(path)] = PushAt(@, Tail(path), child)]

\* ------------------------------------------------------------------------
\* Parser state (struct parser) and the result of Parse
\* ------------------------------------------------------------------------
VARIABLES lexed, dfaState, current, nodeStack, root, pc, err

parserVars == <<lexed, dfaState, current, nodeStack, root, pc, err>>

\* Evaluator state (struct evaluator and what its latest call produced)
VARIABLES table, program, evalErr, written, walk, epc

evalVars == <<table, program, evalErr, written, walk, epc>>

vars == <<parserVars, evalVars>>

NoError == [type |-> "nil"]
UnterminatedStatement == [type |-> "UnterminatedStatement"]
UnexpectedTokenError(l) == [type |-> "UnexpectedTokenError", l |-> l]
InvalidNumberError(l) == [type |-> "InvalidNumberError", l |-> l]
\* runtime panic of the Go program (index or slice bound out of range)
Panic == [type |-> "panic"]
\* error of dfa.Machine.Transition when the state has no edge for the input
UnexpectedInput(input) == [type |-> "dfa.UnexpectedInput", input |-> input]

getContext(stack) == stack[Len(stack)]

\* push that forgets to make the synthesized Statement the context
push_noStatementFrame(stack, tree, node) ==
  IF stack = <<>> THEN [nodeStack |-> stack, root |-> tree, err |-> Panic]
  ELSE
    LET context == getContext(stack)
        isRoot == NodeAt(tree, context).type = "Root"
        statement == context \o <<Len(KidsOf(NodeAt(tree, context))) + 1>>
        tree1 == IF isRoot THEN PushAt(tree, context, NewStatement) ELSE tree
        context1 == IF isRoot THEN statement ELSE context
        isParent == ContainsChildren(NodeAt(tree1, context1))
        added == context1 \o <<Len(KidsOf(NodeAt(tree1, context1))) + 1>>
        tree2 == IF isParent THEN PushAt(tree1, context1, node) ELSE tree1
        stack2 == IF ContainsChildren(node) THEN Append(stack, added) ELSE stack
    IN [nodeStack |-> stack2, root |-> tree2, err |-> NoError]

\* push that never makes a container node the context
push_noContainerFrame(stack, tree, node) ==
  IF stack = <<>> THEN [nodeStack |-> stack, root |-> tree, err |-> Panic]
  ELSE
    LET context == getContext(stack)
        isRoot == NodeAt(tree, context).type = "Root"
        statement == context \o <<Len(KidsOf(NodeAt(tree, context))) + 1>>
        tree1 == IF isRoot THEN PushAt(tree, context, NewStatement) ELSE tree
        stack1 == IF isRoot THEN Append(stack, statement) ELSE stack
        context1 == getContext(stack1)
        isParent == ContainsChildren(NodeAt(tree1, context1))
        tree2 == IF isParent THEN PushAt(tree1, context1, node) ELSE tree1
    IN [nodeStack |-> stack1, root |-> tree2, err |-> NoError]

\* parser.push; the parser is the pair of its node stack and the tree.
push(stack, tree, node) ==
  IF stack = <<>> THEN [nodeStack |-> stack, root |-> tree, err |-> Panic]
  ELSE
    LET context == getContext(stack)
        isRoot == NodeAt(tree, context).type = "Root"
        statement == context \o <<Len(KidsOf(NodeAt(tree, context))) + 1>>
        tree1 == IF isRoot THEN PushAt(tree, context, NewStatement) ELSE tree
        stack1 == IF isRoot THEN Append(stack, statement) ELSE stack
        context1 == getContext(stack1)
        isParent == ContainsChildren(NodeAt(tree1, context1))
        added == context1 \o <<Len(KidsOf(NodeAt(tree1, context1))) + 1>>
        tree2 == IF isParent THEN PushAt(tree1, context1, node) ELSE tree1
        stack2 == IF ContainsChildren(node) THEN Append(stack1, added) ELSE stack1
    IN [nodeStack |-> stack2, root |-> tree2, err |-> NoError]

createIdentifier(stack, tree, cur) == push(stack, tree, NewFunctionCall(cur.Value))

createStringLiteral(stack, tree, cur) == push(stack, tree, NewString(cur.Value))

\* createBooleanLiteral testing for the wrong kind
createBooleanLiteral_inverted(stack, tree, cur) ==
  push(stack, tree, NewBoolean(cur.Type = LBoolFalse))

createBooleanLiteral(stack, tree, cur) ==
  push(stack, tree, NewBoolean(cur.Type = LBoolTrue))

\* createNumberLiteral pushing the node whatever ParseFloat says
createNumberLiteral_pushFirst(stack, tree, cur) ==
  LET parsed == ParseFloat(cur.Value)
      pushed == push(stack, tree, NewNumber(parsed.number))
  IN IF parsed.ok THEN pushed
     ELSE [pushed EXCEPT !.err = InvalidNumberError(cur)]

createNumberLiteral(stack, tree, cur) ==
  LET parsed == ParseFloat(cur.Value)
  IN IF parsed.ok THEN push(stack, tree, NewNumber(parsed.number))
     ELSE [nodeStack |-> stack, root |-> tree, err |-> InvalidNumberError(cur)]

closeNode(stack, tree, cur) ==
  IF stack = <<>> THEN [nodeStack |-> stack, root |-> tree, err |-> Panic]
  ELSE [nodeStack |-> SubSeq(stack, 1, Len(stack) - 1), root |-> tree,
        err |-> NoError]

\* ------------------------------------------------------------------------
\* The parse machine declared by NewParser
\* ------------------------------------------------------------------------
Paths(from, to) == from \X to

Edges ==
  Paths({start}, literals \cup {LIdentifier})
    \cup Paths({LIdentifier}, {LParenOpen})
    \cup Paths({LParenOpen}, {LQuoted})
    \cup Paths({LQuoted}, {LParenClose})
    \cup Paths({LParenClose}, {LSemiColon})
    \cup Paths(literals, {LSemiColon})
    \cup Paths({LSemiColon}, literals)

WhenEntering(state, stack, tree, cur) ==
  CASE state = LIdentifier -> createIdentifier(stack, tree, cur)
    [] state = LQuoted -> createStringLiteral(stack, tree, cur)
    [] state = LParenClose -> closeNode(stack, tree, cur)
    [] state = LSemiColon -> closeNode(stack, tree, cur)
    [] state = LNumber -> createNumberLiteral(stack, tree, cur)
    [] state \in {LBoolTrue, LBoolFalse} -> createBooleanLiteral(stack, tree, cur)
    [] OTHER -> [nodeStack |-> stack, root |-> tree, err |-> NoError]

\* a machine that also accepts an unterminated literal
Accept_literals == {LSemiColon} \cup literals

Accept == {LSemiColon}

\* dfa.Machine.Transition: no edge is an error; otherwise the hook of the
\* target state runs and the machine moves unless the hook failed.
Transition(state, input, stack, tree, cur) ==
  IF <<state, input>> \notin Edges
  THEN [state |-> state, nodeStack |-> stack, root |-> tree,
        err |-> UnexpectedInput(input)]
  ELSE LET hook == WhenEntering(input, stack, tree, cur)
       IN [state |-> IF hook.err = NoError THEN input ELSE state,
           nodeStack |-> hook.nodeStack, root |-> hook.root, err |-> hook.err]

\* dfa.Machine.Finish
Finish(state) == state \in Accept

\* ------------------------------------------------------------------------
\* Parse
\* ------------------------------------------------------------------------
InitParser ==
  /\ lexed = <<>>
  /\ dfaState = start
  /\ current = NoLexeme
  /\ nodeStack = <<>>
  /\ root = RootNode
  /\ pc = "new"
  /\ err = NoError

\* Parse, lines 45-47: the root is created and becomes the only frame.
ParseBegin ==
  /\ pc = "new"
  /\ pc' = "parsing"
  /\ root' = RootNode
  /\ nodeStack' = <<<<>>>>
  /\ UNCHANGED <<lexed, dfaState, current, err, evalVars>>

\* The loop handing a whitespace lexeme to the machine like any other.
ParseWhitespace_transitions ==
  /\ pc = "parsing"
  /\ Len(lexed) < MaxLexemes
  /\ \E text \in TextsOf(LWhitespace) :
       LET lexeme == MakeLexeme(text, LWhitespace, Len(lexed) + 1)
           t == Transition(dfaState, lexeme.Type, nodeStack, root, lexeme)
       IN /\ lexed' = Append(lexed, lexeme)
          /\ current' = lexeme
          /\ dfaState' = t.state
          /\ nodeStack' = t.nodeStack
          /\ root' = t.root
          /\ err' = t.err
          /\ pc' = IF t.err = NoError THEN "parsing" ELSE "returned"
  /\ UNCHANGED evalVars

\* One iteration of the loop on a whitespace lexeme.
ParseWhitespace ==
  /\ pc = "parsing"
  /\ Len(lexed) < MaxLexemes
  /\ \E text \in TextsOf(LWhitespace) :
       lexed' = Append(lexed, MakeLexeme(text, LWhitespace, Len(lexed) + 1))
  /\ UNCHANGED <<dfaState, current, nodeStack, root, pc, err, evalVars>>

\* One iteration of the loop on any other lexeme.
ParseTransition ==
  /\ pc = "parsing"
  /\ Len(lexed) < MaxLexemes
  /\ \E kind \in LexemeKinds \ {LWhitespace} : \E text \in TextsOf(kind) :
       LET lexeme == MakeLexeme(text, kind, Len(lexed) + 1)
           t == Transition(dfaState, lexeme.Type, nodeStack, root, lexeme)
       IN /\ lexed' = Append(lexed, lexeme)
          /\ current' = lexeme
          /\ dfaState' = t.state
          /\ nodeStack' = t.nodeStack
          /\ root' = t.root
          /\ err' = t.err
          /\ pc' = IF t.err = NoError THEN "parsing"
                   ELSE IF t.err = Panic THEN "panicked" ELSE "returned"
  /\ UNCHANGED evalVars

\* The lexer is exhausted: the loop ends and Finish decides the result.
ParseFinish ==
  /\ pc = "parsing"
  /\ pc' = "returned"
  /\ err' = IF Finish(dfaState) THEN NoError ELSE UnterminatedStatement
  /\ UNCHANGED <<lexed, dfaState, current, nodeStack, root, evalVars>>

TypeOK ==
  /\ pc \in {"new", "parsing", "returned", "panicked"}
  /\ Len(lexed) <= MaxLexemes
  /\ dfaState \in LexemeKinds \cup {start}

\* ------------------------------------------------------------------------
\* Runtime values.  A Number literal of the evaluator holds an integral
\* float64 (exact below 2^53) and is represented by that integer; nil is
\* the Go nil Value returned where a construct yields no value.
\* ------------------------------------------------------------------------
TypeString == "string"
TypeBoolean == "boolean"
TypeNumber == "number"
TypeNone == "none"

Nil == [kind |-> TypeNone, num |-> 0, str |-> <<>>, bool |-> FALSE]
Number(n) == [kind |-> TypeNumber, num |-> n, str |-> <<>>, bool |-> FALSE]
String(t) == [kind |-> TypeString, num |-> 0, str |-> t, bool |-> FALSE]
Boolean(b) == [kind |-> TypeBoolean, num |-> 0, str |-> <<>>, bool |-> b]

TypeOf(value) == value.kind

Types(args) == [i \in 1..Len(args) |-> TypeOf(args[i])]

\* ------------------------------------------------------------------------
\* AST nodes walked by the evaluator.  The Value field of a literal is named
\* Value, Text or Truth after its Go type (float64, string, bool).
\* ------------------------------------------------------------------------
NoNode == [type |-> "none"]
IdentifierNode(name) == [type |-> "Identifier", Identifier |-> name]
StringNode(t) == [type |-> "String", Text |-> t]
NumberNode(n) == [type |-> "Number", Value |-> n]
BooleanNode(b) == [type |-> "Boolean", Truth |-> b]
FunctionCallNode(name, children) ==
  [type |-> "FunctionCall", Identifier |-> IdentifierNode(name),
   Children |-> children]
OperatorNode(symbol, children) ==
  [type |-> "Operator", Operator |-> symbol, Children |-> children]
LetNode(typeName, name, children) ==
  [type |-> "Let", Type |-> IdentifierNode(typeName),
   Identifier |-> IdentifierNode(name), Children |-> children]
AssignmentNode(name, children) ==
  [type |-> "Assignment", Identifier |-> IdentifierNode(name),
   Children |-> children]
GroupNode(children) == [type |-> "Group", Children |-> children]
IfNode(condition, children) ==
  [type |-> "If", condition |-> condition, Children |-> children]
StatementNode(children) == [type |-> "Statement", Children |-> children]
RootOf(statements) == [type |-> "Root", Statements |-> statements]

IsParent(node) ==
  node.type \in {"FunctionCall", "Operator", "Let", "Assignment", "Group",
                 "Statement"}

\* ------------------------------------------------------------------------
\* Errors of the runtime
\* ------------------------------------------------------------------------
ErrorsNew(msg) == [type |-> "error", msg |-> msg]
UnknownIdentifier(node) == [type |-> "UnknownIdentifier", node |-> node]
UnknownOperator(node) == [type |-> "UnknownOperator", node |-> node]
InvalidType(node) == [type |-> "InvalidType", node |-> node]
UnknownType == [type |-> "UnknownType"]
AlreadyDefined == [type |-> "AlreadyDefined"]

\* ------------------------------------------------------------------------
\* Symbol table
\* ------------------------------------------------------------------------
NoVars == [n \in {} |-> Nil]

OperatorEntry(symbol, operands, invokable) ==
  [symbol |-> symbol, operands |-> operands, invokable |-> invokable]

\* the table NewEvaluator registers
NewTable ==
  [types |-> {TypeString, TypeBoolean, TypeNumber},
   functions |-> {"println"},
   operators |->
     {OperatorEntry("+", <<TypeNumber, TypeNumber>>, "AddNumbers"),
      OperatorEntry("-", <<TypeNumber, TypeNumber>>, "SubtractNumbers"),
      OperatorEntry("*", <<TypeNumber, TypeNumber>>, "MultiplyNumbers"),
      OperatorEntry("/", <<TypeNumber, TypeNumber>>, "DivideNumbers"),
      OperatorEntry("+", <<TypeString, TypeString>>, "StringConcatenation"),
      OperatorEntry("&&", <<TypeBoolean, TypeBoolean>>, "LogicAnd"),
      OperatorEntry("||", <<TypeBoolean, TypeBoolean>>, "LogicOr"),
      OperatorEntry("==", <<TypeNumber, TypeNumber>>, "Equality"),
      OperatorEntry("<", <<TypeNumber, TypeNumber>>, "LessThan"),
      OperatorEntry(">", <<TypeNumber, TypeNumber>>, "GreaterThan")},
   vars |-> NoVars]

TableType(t, name) ==
  IF name \in t.types THEN [err |-> NoError, type |-> name]
  ELSE [err |-> UnknownType, type |-> TypeNone]

TableInvokable(t, name) ==
  IF name \in t.functions THEN [err |-> NoError, invokable |-> "Println"]
  ELSE [err |-> UnknownIdentifier(NoNode), invokable |-> "none"]

TableOperator(t, symbol, operands) ==
  LET found == {e \in t.operators : e.symbol = symbol /\ e.operands = operands}
  IN IF found = {} THEN [err |-> UnknownOperator(NoNode), invokable |-> "none"]
     ELSE [err |-> NoError, invokable |-> (CHOOSE e \in found : TRUE).invokable]

TableDefine(t, name, type) ==
  IF name \in DOMAIN t.vars THEN [err |-> AlreadyDefined, table |-> t]
  ELSE [err |-> NoError,
        table |-> [t EXCEPT !.vars = (name :> [type |-> type, value |-> Nil]) @@ @]]

TableSet(t, name, value) ==
  IF name \notin DOMAIN t.vars THEN [err |-> UnknownIdentifier(NoNode), table |-> t]
  ELSE IF TypeOf(value) # t.vars[name].type
  THEN [err |-> InvalidType(NoNode), table |-> t]
  ELSE [err |-> NoError, table |-> [t EXCEPT !.vars[name].value = value]]

TableGet(t, name) ==
  IF name \notin DOMAIN t.vars THEN [err |-> UnknownIdentifier(NoNode), val |-> Nil]
  ELSE [err |-> NoError, val |-> t.vars[name].value]

\* ------------------------------------------------------------------------
\* Evaluation context: the table, the bytes written to Output, and the
\* record of the walk (nodes entered, invokables called, results returned).
\* A node is named by its path from the evaluated node: child indices, 0 for
\* the condition of an If.
\* ------------------------------------------------------------------------
Context(t, out, log) == [table |-> t, output |-> out, log |-> log]

Logged(ctx, event) == [ctx EXCEPT !.log = Append(@, event)]

EvalEvent(path, ctx) == [ev |-> "eval", path |-> path, vars |-> ctx.table.vars]
InvokeEvent(path, invokable, args) ==
  [ev |-> "invoke", path |-> path, invokable |-> invokable, args |-> args]
InvokedEvent(path, invokable, e) ==
  [ev |-> "invoked", path |-> path, invokable |-> invokable, err |-> e]
ReturnEvent(path, e, val, ctx) ==
  [ev |-> "return", path |-> path, err |-> e, val |-> val,
   vars |-> ctx.table.vars, output |-> ctx.output]

Result(e, val, ctx) == [err |-> e, val |-> val, ctx |-> ctx]

\* ------------------------------------------------------------------------
\* Native operations
\* ------------------------------------------------------------------------
IsNumber(value) == TypeOf(value) = TypeNumber

\* AddNumbers.Invoke: args[0] and args[1] are indexed without a length check.
AddNumbers(ctx, args) ==
  IF Len(args) < 1 THEN Result(Panic, Nil, ctx)
  ELSE IF IsNumber(args[1])
  THEN IF Len(args) < 2 THEN Result(Panic, Nil, ctx)
       ELSE IF IsNumber(args[2])
       THEN Result(NoError, Number(args[1].num + args[2].num), ctx)
       ELSE Result(ErrorsNew("Invalid operands. Number addition requires two numbers"), Nil, ctx)
  ELSE Result(ErrorsNew("Invalid operands. Number addition requires two numbers"), Nil, ctx)

\* SubtractNumbers.Invoke taking the second operand as the minuend
SubtractNumbers_swapped(ctx, args) ==
  IF Len(args) = 2 /\ IsNumber(args[1]) /\ IsNumber(args[2])
  THEN Result(NoError, Number(args[2].num - args[1].num), ctx)
  ELSE Result(ErrorsNew("Invalid operands. Subtraction requires two numbers"), Nil, ctx)

SubtractNumbers(ctx, args) ==
  IF Len(args) < 1 THEN Result(Panic, Nil, ctx)
  ELSE IF IsNumber(args[1])
  THEN IF Len(args) < 2 THEN Result(Panic, Nil, ctx)
       ELSE IF IsNumber(args[2])
       THEN Result(NoError, Number(args[1].num - args[2].num), ctx)
       ELSE Result(ErrorsNew("Invalid operands. Subtraction requires two numbers"), Nil, ctx)
  ELSE Result(ErrorsNew("Invalid operands. Subtraction requires two numbers"), Nil, ctx)

InvalidOperands == ErrorsNew("Invalid operands")

\* the binary natives whose source is not at hand: both operands must be of
\* the expected variant
Binary(ctx, args, type, value) ==
  IF Len(args) = 2 /\ TypeOf(args[1]) = type /\ TypeOf(args[2]) = type
  THEN Result(NoError, value, ctx)
  ELSE Result(InvalidOperands, Nil, ctx)

\* Println writes its single argument to Output.
Println(ctx, args) ==
  IF Len(args) = 1
  THEN Result(NoError, Nil, [ctx EXCEPT !.output = Append(@, args[1])])
  ELSE Result(InvalidOperands, Nil, ctx)

\* the implementation behind an invokable; quotients of DivideNumbers lie
\* outside the integers and are left out
Implementation(invokable, ctx, args) ==
  CASE invokable = "AddNumbers" -> AddNumbers(ctx, args)
    [] invokable = "SubtractNumbers" -> SubtractNumbers(ctx, args)
    [] invokable = "MultiplyNumbers" ->
         Binary(ctx, args, TypeNumber, Number(args[1].num * args[2].num))
    [] invokable = "StringConcatenation" ->
         Binary(ctx, args, TypeString, String(args[1].str \o args[2].str))
    [] invokable = "LogicAnd" ->
         Binary(ctx, args, TypeBoolean, Boolean(args[1].bool /\ args[2].bool))
    [] invokable = "LogicOr" ->
         Binary(ctx, args, TypeBoolean, Boolean(args[1].bool \/ args[2].bool))
    [] invokable = "Equality" ->
         Binary(ctx, args, TypeNumber, Boolean(args[1].num = args[2].num))
    [] invokable = "LessThan" ->
         Binary(ctx, args, TypeNumber, Boolean(args[1].num < args[2].num))
    [] invokable = "GreaterThan" ->
         Binary(ctx, args, TypeNumber, Boolean(args[1].num > args[2].num))
    [] invokable = "Println" -> Println(ctx, args)

\* Invokable.Invoke, with the call and its outcome put on record
Invoke(invokable, path, ctx, args) ==
  LET r == Implementation(invokable,
                          Logged(ctx, InvokeEvent(path, invokable, args)), args)
  IN Result(r.err, r.val, Logged(r.ctx, InvokedEvent(path, invokable, r.err)))

\* applyUnknownIdentifierNode that leaves the table's error as it came
applyUnknownIdentifierNode_bare(e, identifier) ==
  IF e.type = "UnknownIdentifier" THEN e ELSE NoError

\* ------------------------------------------------------------------------
\* Evaluator
\* ------------------------------------------------------------------------
applyUnknownIdentifierNode(e, identifier) ==
  IF e.type = "UnknownIdentifier" THEN UnknownIdentifier(identifier) ELSE NoError

\* setValue that stores the value in a defined binding whatever its type
setValue_unchecked(ctx, identifier, value) ==
  IF identifier.Identifier \in DOMAIN ctx.table.vars
  THEN Result(NoError, Nil,
              [ctx EXCEPT !.table.vars[identifier.Identifier].value = value])
  ELSE Result(UnknownIdentifier(identifier), Nil, ctx)

\* evaluator.setValue: returns the error and the context after Table.Set
setValue(ctx, identifier, value) ==
  LET set == TableSet(ctx.table, identifier.Identifier, value)
      ctx1 == [ctx EXCEPT !.table = set.table]
  IN IF set.err.type = "InvalidType"
     THEN Result(InvalidType(identifier), Nil, ctx1)
     ELSE Result(applyUnknownIdentifierNode(set.err, identifier), Nil, ctx1)

\* the invokable's result is dropped; a panic inside it still unwinds
evaluateFunctionCall(fn, path, args, ctx) ==
  LET found == TableInvokable(ctx.table, fn.Identifier.Identifier)
  IN IF found.err # NoError THEN Result(found.err, Nil, ctx)
     ELSE LET r == Invoke(found.invokable, path, ctx, args)
          IN IF r.err = Panic THEN Result(Panic, Nil, r.ctx)
             ELSE Result(NoError, Nil, r.ctx)

\* evaluateOperator resolving every operand as the type of the first one
evaluateOperator_firstOperandType(operator, path, args, ctx) ==
  IF \E k \in 1..Len(args) : args[k] = Nil THEN Result(Panic, Nil, ctx)
  ELSE
    LET operands == [k \in 1..Len(args) |-> TypeOf(args[1])]
        found == TableOperator(ctx.table, operator.Operator, operands)
    IN IF found.err # NoError
       THEN IF found.err.type = "UnknownOperator"
            THEN Result(UnknownOperator(operator), Nil, ctx)
            ELSE Result(found.err, Nil, ctx)
       ELSE Invoke(found.invokable, path, ctx, args)

\* arg.Type() on a nil Value is a nil dereference
evaluateOperator(operator, path, args, ctx) ==
  IF \E k \in 1..Len(args) : args[k] = Nil THEN Result(Panic, Nil, ctx)
  ELSE
    LET operands == Types(args)
        found == TableOperator(ctx.table, operator.Operator, operands)
    IN IF found.err # NoError
       THEN IF found.err.type = "UnknownOperator"
            THEN Result(UnknownOperator(operator), Nil, ctx)
            ELSE Result(found.err, Nil, ctx)
       ELSE Invoke(found.invokable, path, ctx, args)

\* evaluateLet that defines the variable and forgets the initializer
evaluateLet_noInitializer(let, args, ctx) ==
  IF Len(args) > 1
  THEN Result(ErrorsNew("Assignment with declaration must have at most one value"),
              Nil, ctx)
  ELSE
    LET valueType == TableType(ctx.table, let.Type.Identifier)
        defined == TableDefine(ctx.table, let.Identifier.Identifier, valueType.type)
        ctx1 == [ctx EXCEPT !.table = defined.table]
    IN IF valueType.err # NoError THEN Result(valueType.err, Nil, ctx)
       ELSE IF defined.err # NoError THEN Result(defined.err, Nil, ctx)
       ELSE Result(NoError, Nil, ctx1)

\* evaluateLet that takes the binding back when the initializer is refused
evaluateLet_atomic(let, args, ctx) ==
  IF Len(args) > 1
  THEN Result(ErrorsNew("Assignment with declaration must have at most one value"),
              Nil, ctx)
  ELSE
    LET valueType == TableType(ctx.table, let.Type.Identifier)
        defined == TableDefine(ctx.table, let.Identifier.Identifier, valueType.type)
        ctx1 == [ctx EXCEPT !.table = defined.table]
        set == setValue(ctx1, let.Identifier, args[1])
    IN IF valueType.err # NoError THEN Result(valueType.err, Nil, ctx)
       ELSE IF defined.err # NoError THEN Result(defined.err, Nil, ctx)
       ELSE IF Len(args) = 1
       THEN IF set.err # NoError THEN Result(set.err, Nil, ctx) ELSE set
       ELSE Result(NoError, Nil, ctx1)

evaluateLet(let, args, ctx) ==
  IF Len(args) > 1
  THEN Result(ErrorsNew("Assignment with declaration must have at most one value"),
              Nil, ctx)
  ELSE
    LET valueType == TableType(ctx.table, let.Type.Identifier)
        defined == TableDefine(ctx.table, let.Identifier.Identifier, valueType.type)
        ctx1 == [ctx EXCEPT !.table = defined.table]
    IN IF valueType.err # NoError THEN Result(valueType.err, Nil, ctx)
       ELSE IF defined.err # NoError THEN Result(defined.err, Nil, ctx)
       ELSE IF Len(args) = 1 THEN setValue(ctx1, let.Identifier, args[1])
       ELSE Result(NoError, Nil, ctx1)

evaluateIdentifier(identifier, args, ctx) ==
  LET got == TableGet(ctx.table, identifier.Identifier)
  IN Result(applyUnknownIdentifierNode(got.err, identifier), got.val, ctx)

evaluateAssignment(assignment, args, ctx) ==
  IF Len(args) # 1
  THEN Result(ErrorsNew("Assignment must have at exactly one value"), Nil, ctx)
  ELSE setValue(ctx, assignment.Identifier, args[1])

evaluateGroup(args, ctx) ==
  IF Len(args) # 1
  THEN Result(ErrorsNew("Group should not have more than 1 child"), Nil, ctx)
  ELSE Result(NoError, args[1], ctx)

\* the part of evaluate after the children were collected (lines 78-127)
evaluateNode(node, path, args, ctx) ==
  CASE node.type = "String" -> Result(NoError, String(node.Text), ctx)
    [] node.type = "Number" -> Result(NoError, Number(node.Value), ctx)
    [] node.type = "Boolean" -> Result(NoError, Boolean(node.Truth), ctx)
    [] node.type = "FunctionCall" -> evaluateFunctionCall(node, path, args, ctx)
    [] node.type = "Operator" -> evaluateOperator(node, path, args, ctx)
    [] node.type = "Let" -> evaluateLet(node, args, ctx)
    [] node.type = "Identifier" -> evaluateIdentifier(node, args, ctx)
    [] node.type = "Assignment" -> evaluateAssignment(node, args, ctx)
    [] node.type = "Group" -> evaluateGroup(args, ctx)
    [] node.type = "Statement" -> Result(NoError, Nil, ctx)
    [] node.type = "Root" -> Result(NoError, Nil, ctx)
    [] OTHER -> Result(ErrorsNew("Handling not yet implemented."), Nil, ctx)

RECURSIVE evaluate(_, _, _)
RECURSIVE evaluateChildren(_, _, _, _, _)
RECURSIVE evaluateBody(_, _, _, _)
RECURSIVE evaluateChildren_pastErrors(_, _, _, _, _)

\* the loops going on to the later children after a child failed
evaluateChildren_pastErrors(children, path, k, args, ctx) ==
  IF k > Len(children) THEN Result(NoError, args, ctx)
  ELSE LET r == evaluate(children[k], Append(path, k), ctx)
           rest == evaluateChildren_pastErrors(children, path, k + 1,
                                               Append(args, r.val), r.ctx)
       IN IF r.err # NoError THEN Result(r.err, args, rest.ctx) ELSE rest

\* the loops of lines 59-66 and 68-75: the result's val is the argument list
evaluateChildren(children, path, k, args, ctx) ==
  IF k > Len(children) THEN Result(NoError, args, ctx)
  ELSE LET r == evaluate(children[k], Append(path, k), ctx)
       IN IF r.err # NoError THEN Result(r.err, args, r.ctx)
          ELSE evaluateChildren(children, path, k + 1, Append(args, r.val), r.ctx)

\* the loop of lines 201-203: the children's errors are dropped; only a
\* panic ends it
evaluateBody(children, path, k, ctx) ==
  IF k > Len(children) THEN Result(NoError, Nil, ctx)
  ELSE LET r == evaluate(children[k], Append(path, k), ctx)
       IN IF r.err = Panic THEN Result(Panic, Nil, r.ctx)
          ELSE evaluateBody(children, path, k + 1, r.ctx)

\* evaluateIf that runs the body on any Boolean condition
evaluateIf_anyBoolean(node, path, ctx) ==
  LET c == evaluate(node.condition, Append(path, 0), ctx)
  IN IF c.err # NoError THEN Result(c.err, Nil, c.ctx)
     ELSE IF TypeOf(c.val) # TypeBoolean
     THEN Result(ErrorsNew("If condition must evaluate to boolean"), Nil, c.ctx)
     ELSE evaluateBody(node.Children, path, 1, c.ctx)

evaluateIf(node, path, ctx) ==
  LET c == evaluate(node.condition, Append(path, 0), ctx)
  IN IF c.err # NoError THEN Result(c.err, Nil, c.ctx)
     ELSE IF TypeOf(c.val) # TypeBoolean
     THEN Result(ErrorsNew("If condition must evaluate to boolean"), Nil, c.ctx)
     ELSE IF c.val.bool THEN evaluateBody(node.Children, path, 1, c.ctx)
     ELSE Result(NoError, Nil, c.ctx)

evaluate(node, path, ctx) ==
  LET entered == Logged(ctx, EvalEvent(path, ctx))
      r == IF node.type = "If" THEN evaluateIf(node, path, entered)
           ELSE LET kids == IF IsParent(node) THEN node.Children
                            ELSE IF node.type = "Root" THEN node.Statements
                            ELSE <<>>
                    c == evaluateChildren(kids, path, 1, <<>>, entered)
                IN IF c.err # NoError THEN Result(c.err, Nil, c.ctx)
                   ELSE evaluateNode(node, path, c.val, c.ctx)
  IN Result(r.err, r.val, Logged(r.ctx, ReturnEvent(path, r.err, r.val, r.ctx)))

\* ------------------------------------------------------------------------
\* The ASTs handed to Evaluate
\* ------------------------------------------------------------------------
N1 == NumberNode(1)
N2 == NumberNode(2)
Sa == StringNode(<<"a">>)
Idx == IdentifierNode("x")
Idy == IdentifierNode("y")
PrintA == FunctionCallNode("println", <<Sa>>)

SeqsOf(S) == SeqsUpTo(S, MaxChildren)

Atoms == {N1, N2, Sa, BooleanNode(TRUE), BooleanNode(FALSE), Idx}

Symbols == {"+", "-", "<", "&&", "%"}

Operators ==
  {OperatorNode(sym, args) : sym \in Symbols, args \in SeqsOf({N1, N2, Sa, Idx}) \ {<<>>}}

NestedOperators ==
  {OperatorNode(sym, <<a, b>>) :
     sym \in {"+", "-"}, a \in {N2, OperatorNode("-", <<N2, N1>>), PrintA},
     b \in {N2, OperatorNode("-", <<N2, N1>>), PrintA}}

Inits ==
  {N1, Sa, Idx, Idy, OperatorNode("+", <<N1, N2>>), OperatorNode("+", <<N1, Sa>>)}

FunctionCalls ==
  {FunctionCallNode(name, args) :
     name \in {"println", "f"},
     args \in SeqsOf({Sa, Idx, OperatorNode("+", <<N1, N2>>)})}

Lets ==
  {LetNode(type, "x", inits) :
     type \in {TypeNumber, TypeString, "t"}, inits \in SeqsOf(Inits)}

Assignments == {AssignmentNode("x", values) : values \in SeqsOf(Inits)}

Groups == {GroupNode(children) : children \in SeqsOf({N1, Idx})}

Conditions ==
  {BooleanNode(TRUE), BooleanNode(FALSE), N1, Idx, PrintA,
   OperatorNode("<", <<N1, N2>>), OperatorNode("<", <<N2, N1>>)}

Bodies ==
  {PrintA, Idx, LetNode(TypeNumber, "x", <<N1>>), AssignmentNode("x", <<N2>>),
   OperatorNode("+", <<PrintA, N2>>),
   IfNode(BooleanNode(TRUE), <<FunctionCallNode("println", <<Idx>>)>>)}

Ifs == {IfNode(c, body) : c \in Conditions, body \in SeqsOf(Bodies)}

Statements ==
  {StatementNode(<<e>>) :
     e \in {LetNode(TypeNumber, "x", <<OperatorNode("+", <<N1, N2>>)>>),
            LetNode(TypeString, "x", <<N1>>), Idx, AssignmentNode("x", <<Sa>>),
            FunctionCallNode("println", <<Idx>>),
            IfNode(BooleanNode(TRUE), <<Idx, PrintA>>)}}

Roots == {RootOf(statements) : statements \in SeqsOf(Statements)}

\* let x: T = e; x;
LetThenRead ==
  {RootOf(<<StatementNode(<<LetNode(type, "x", <<e>>)>>), StatementNode(<<Idx>>)>>) :
     type \in {TypeNumber, TypeString, TypeBoolean},
     e \in {N1, Sa, BooleanNode(TRUE), OperatorNode("+", <<N1, N2>>),
            OperatorNode("+", <<Sa, Sa>>), OperatorNode("<", <<N1, N2>>)}}

Programs ==
  Atoms \cup Operators \cup NestedOperators \cup FunctionCalls \cup Lets
    \cup Assignments \cup Groups \cup Ifs \cup Roots \cup LetThenRead

\* ------------------------------------------------------------------------
\* The evaluator: its table lives as long as the evaluator; program, evalErr,
\* written (the values sent to Output) and walk describe the call of
\* Evaluate that just returned.
\* ------------------------------------------------------------------------
NewEvaluator ==
  /\ table = NewTable
  /\ program = NoNode
  /\ evalErr = NoError
  /\ written = <<>>
  /\ walk = <<>>
  /\ epc = "idle"

\* Evaluator.Evaluate on any of the programs
Evaluate ==
  /\ epc = "idle"
  /\ \E node \in Programs :
       LET r == evaluate(node, <<>>, Context(table, <<>>, <<>>))
       IN /\ program' = node
          /\ table' = r.ctx.table
          /\ written' = r.ctx.output
          /\ walk' = r.ctx.log
          /\ evalErr' = r.err
          /\ epc' = IF r.err = Panic THEN "panicked" ELSE "returned"
  /\ UNCHANGED parserVars

\* The caller is done with the result of the call; the evaluator and its
\* table stay in use for the next one.
Discard ==
  /\ epc = "returned"
  /\ epc' = "idle"
  /\ program' = NoNode
  /\ evalErr' = NoError
  /\ written' = <<>>
  /\ walk' = <<>>
  /\ UNCHANGED <<table, parserVars>>

Init == InitParser /\ NewEvaluator

Next == ParseBegin \/ ParseWhitespace \/ ParseTransition \/ ParseFinish

Spec == Init /\ [][Next]_vars

NextEval == Evaluate \/ Discard

SpecEval == Init /\ [][NextEval]_vars

\* ------------------------------------------------------------------------
\* Properties of the parser
\* ------------------------------------------------------------------------
IsWs(l) == l.Type = LWhitespace
IsNotWs(l) == l.Type # LWhitespace
IsSemi(l) == l.Type = LSemiColon

NonWs == SelectSeq(lexed, IsNotWs)

\* C1: while Parse runs and after it returned, the node stack is never
\* empty and its bottom frame is the Root; no hook ever reads or pops an
\* empty stack (the program does not panic).
C1_StackNeverEmpty ==
  /\ pc # "panicked"
  /\ pc # "new" => /\ Len(nodeStack) >= 1
                   /\ nodeStack[1] = <<>>
                   /\ NodeAt(root, nodeStack[1]).type = "Root"

\* closeNode ran on parenClose and then on semicolon.
C1_Witness ==
  /\ pc = "parsing"
  /\ dfaState = LSemiColon
  /\ \E i \in 1..Len(lexed) : lexed[i].Type = LParenClose
  /\ nodeStack = <<<<>>>>

WellFormedLiteral(l) ==
  /\ l.Type \in literals
  /\ l.Type = LNumber => ParseFloat(l.Value).ok

\* the literal node a well-formed literal lexeme stands for
LiteralNode(l) ==
  CASE l.Type = LNumber ->
         [type |-> "NumberLiteral", Value |-> ParseFloat(l.Value).number]
    [] l.Type = LQuoted -> [type |-> "StringLiteral", Value |-> l.Value]
    [] l.Type = LBoolTrue -> [type |-> "BooleanLiteral", Value |-> TRUE]
    [] l.Type = LBoolFalse -> [type |-> "BooleanLiteral", Value |-> FALSE]

IsLiteralProgram(ls) ==
  /\ Len(ls) >= 2
  /\ Len(ls) % 2 = 0
  /\ \A i \in 1..Len(ls) :
       IF i % 2 = 1 THEN WellFormedLiteral(ls[i]) ELSE IsSemi(ls[i])

\* C2: a returned parse of L1 ; ... Ln ; (well-formed literals, whitespace
\* anywhere) has no error and n Statements in input order, the i-th holding
\* exactly the literal node of Li.
C2_LiteralSequence ==
  (pc = "returned" /\ IsLiteralProgram(NonWs)) =>
    /\ err = NoError
    /\ root.type = "Root"
    /\ Len(root.Statements) = Len(NonWs) \div 2
    /\ \A i \in 1..Len(root.Statements) :
         root.Statements[i] =
           [type |-> "Statement", Children |-> <<LiteralNode(NonWs[2 * i - 1])>>]

\* two literal statements of different kinds with whitespace in between
C2_Witness ==
  /\ pc = "returned"
  /\ IsLiteralProgram(NonWs)
  /\ Len(NonWs) = 4
  /\ Len(lexed) = 5
  /\ NonWs[1].Type = LNumber
  /\ NonWs[3].Type = LBoolTrue

Kinds(ls) == [i \in 1..Len(ls) |-> ls[i].Type]

IsCall(ls) ==
  Kinds(ls) = <<LIdentifier, LParenOpen, LQuoted, LParenClose, LSemiColon>>

\* C3: identifier ( quoted ) ; parses without error to one Statement whose
\* only child is the FunctionCall named by the identifier, whose only child
\* is the StringLiteral of the quoted text.
C3_SimpleFunctionCall ==
  (pc = "returned" /\ IsCall(NonWs)) =>
    /\ err = NoError
    /\ root =
         [type |-> "Root",
          Statements |->
            << [type |-> "Statement",
                Children |->
                  << [type |-> "FunctionCall",
                      Identifier |-> NonWs[1].Value,
                      Children |->
                        << [type |-> "StringLiteral",
                            Value |-> NonWs[3].Value] >>] >>] >>]

C3_Witness ==
  /\ pc = "returned"
  /\ IsCall(lexed)
  /\ lexed[1].Value = <<"p">>
  /\ lexed[3].Value = <<"a">>

\* C4: when the lexer is exhausted in a state other than semicolon, Parse
\* returns UnterminatedStatement.
C4_Unterminated ==
  [][(pc = "parsing" /\ pc' = "returned" /\ lexed' = lexed
        /\ dfaState # LSemiColon)
       => err' = UnterminatedStatement]_vars

\* a lone true without terminator
C4_Witness ==
  /\ pc = "returned"
  /\ Kinds(lexed) = <<LBoolTrue>>
  /\ err = UnterminatedStatement

MalformedNumber(l) == l.Type = LNumber /\ ~ParseFloat(l.Value).ok

\* C5 as stated: every malformed number lexeme the parser reads makes Parse
\* fail with InvalidNumberError carrying that lexeme.
C5_Original ==
  (pc # "new" /\ MalformedNumber(current)) => err = InvalidNumberError(current)

\* C5 amended: a malformed number lexeme read in a state that has a number
\* transition (start, semicolon) makes Parse return InvalidNumberError with
\* that lexeme, and the tree and the node stack are left as they were.
C5_InvalidNumber ==
  [][(pc = "parsing" /\ lexed' # lexed /\ MalformedNumber(current')
        /\ current' # current /\ <<dfaState, LNumber>> \in Edges)
       => /\ pc' = "returned"
          /\ err' = InvalidNumberError(current')
          /\ root' = root
          /\ nodeStack' = nodeStack]_vars

\* a malformed number after a terminated statement
C5_Witness ==
  /\ pc = "returned"
  /\ Len(lexed) = 3
  /\ MalformedNumber(current)
  /\ current = lexed[3]
  /\ dfaState = LSemiColon
  /\ err = InvalidNumberError(current)

\* C6: in the semicolon state no literal and no identifier lexeme is
\* refused for want of a transition.
C6_SemicolonSequencing ==
  ~(/\ pc = "returned"
    /\ dfaState = LSemiColon
    /\ current.Type \in literals \cup {LIdentifier}
    /\ err = UnexpectedInput(current.Type))

NoOfSemis == Len(SelectSeq(lexed, IsSemi))

\* C7: a parse without error has one Statement per semicolon lexeme, each
\* with exactly one child (stated as claimed; the machine also accepts
\* identifier ( quoted ; literal ; and builds one Statement of two children).
C7_OneChildPerStatement ==
  (pc = "returned" /\ err = NoError) =>
    /\ Len(root.Statements) = NoOfSemis
    /\ \A i \in 1..Len(root.Statements) :
         /\ root.Statements[i].type = "Statement"
         /\ Len(root.Statements[i].Children) = 1

\* C8: a lexeme for which the current state has no transition makes Parse
\* return UnexpectedTokenError carrying that lexeme.
C8_UnexpectedToken ==
  [][(pc = "parsing" /\ lexed' # lexed
        /\ IsNotWs(lexed'[Len(lexed')])
        /\ <<dfaState, lexed'[Len(lexed')].Type>> \notin Edges)
       => /\ pc' = "returned"
          /\ current' = lexed'[Len(lexed')]
          /\ err' = UnexpectedTokenError(current')]_vars

\* ------------------------------------------------------------------------
\* Properties of the evaluator
\* ------------------------------------------------------------------------
RECURSIVE SubNode(_, _)
SubNode(node, path) ==
  IF path = <<>> THEN node
  ELSE IF Head(path) = 0 THEN SubNode(node.condition, Tail(path))
  ELSE IF node.type = "Root" THEN SubNode(node.Statements[Head(path)], Tail(path))
  ELSE SubNode(node.Children[Head(path)], Tail(path))

Evals(path) == {i \in DOMAIN walk : walk[i].ev = "eval" /\ walk[i].path = path}
Returns(path) == {i \in DOMAIN walk : walk[i].ev = "return" /\ walk[i].path = path}
ReturnOf(path) == walk[CHOOSE i \in Returns(path) : TRUE]

Failures ==
  {i \in DOMAIN walk : walk[i].ev \in {"return", "invoked"} /\ walk[i].err # NoError}

FirstFailure == CHOOSE i \in Failures : \A j \in Failures : i <= j

\* C9: when a node or an invokable fails during a call of Evaluate, nothing
\* is evaluated or invoked after that first failure and Evaluate returns an
\* error.
C9_NoErrorSwallowed ==
  (epc # "idle" /\ Failures # {}) =>
    /\ evalErr # NoError
    /\ \A j \in DOMAIN walk :
         j > FirstFailure => walk[j].ev \notin {"eval", "invoke"}

IfEvals ==
  {i \in DOMAIN walk :
     walk[i].ev = "eval" /\ SubNode(program, walk[i].path).type = "If"}

BodyEvals(path) ==
  {j \in DOMAIN walk :
     /\ walk[j].ev = "eval"
     /\ Len(walk[j].path) = Len(path) + 1
     /\ SubSeq(walk[j].path, 1, Len(path)) = path
     /\ walk[j].path[Len(path) + 1] >= 1}

IfConditionOnceAndFirst(i) ==
  LET condition == Append(walk[i].path, 0)
  IN /\ Cardinality(Evals(condition)) = 1
     /\ i + 1 \in Evals(condition)
     /\ Cardinality(Returns(condition)) = 1

IfNotBoolean(i) ==
  LET c == ReturnOf(Append(walk[i].path, 0))
  IN (c.err = NoError /\ TypeOf(c.val) # TypeBoolean) =>
       /\ ReturnOf(walk[i].path).err # NoError
       /\ BodyEvals(walk[i].path) = {}

IfFalse(i) ==
  LET c == ReturnOf(Append(walk[i].path, 0))
      r == ReturnOf(walk[i].path)
  IN (c.err = NoError /\ c.val = Boolean(FALSE)) =>
       /\ BodyEvals(walk[i].path) = {}
       /\ r.err = NoError
       /\ r.vars = c.vars
       /\ r.output = c.output

IfTrue(i) ==
  LET path == walk[i].path
      c == CHOOSE j \in Returns(Append(path, 0)) : TRUE
      body == SubNode(program, path).Children
  IN (walk[c].err = NoError /\ walk[c].val = Boolean(TRUE)) =>
       \A k \in 1..Len(body) :
         /\ Cardinality(Evals(Append(path, k))) = 1
         /\ \A e \in Evals(Append(path, k)) :
              /\ c < e
              /\ k > 1 => \E r \in Returns(Append(path, k - 1)) : r < e

\* C10: in a call of Evaluate that returned, every If evaluated its
\* condition once and first; a condition value that is not a Boolean fails
\* the If with no body child evaluated; Boolean false evaluates no body
\* child, changes neither table nor output and is no error; Boolean true
\* evaluates every body child, in order.
C10_IfEvaluation ==
  epc = "returned" =>
    \A i \in IfEvals :
      /\ IfConditionOnceAndFirst(i)
      /\ IfNotBoolean(i)
      /\ IfFalse(i)
      /\ IfTrue(i)

\* if (1 < 2) { x; println("a"); } with x undeclared: both children ran
C10_Witness ==
  /\ epc = "returned"
  /\ program = IfNode(OperatorNode("<", <<N1, N2>>), <<Idx, PrintA>>)
  /\ "x" \notin DOMAIN table.vars
  /\ written = <<String(<<"a">>)>>
  /\ evalErr = NoError

EntryOf(path) == walk[CHOOSE i \in Evals(path) : TRUE]

IsLetThenRead(node) ==
  /\ node.type = "Root"
  /\ Len(node.Statements) = 2
  /\ \A k \in 1..2 :
       node.Statements[k].type = "Statement" /\ Len(node.Statements[k].Children) = 1
  /\ node.Statements[1].Children[1].type = "Let"
  /\ Len(node.Statements[1].Children[1].Children) = 1
  /\ node.Statements[2].Children[1] = node.Statements[1].Children[1].Identifier

\* C11: let x: T = e; x; with T registered, x not yet bound and e evaluating
\* without error to a value v of type T returns no error, and the reference
\* x of the second statement evaluates to v.
C11_LetThenRead ==
  (epc # "idle" /\ IsLetThenRead(program)) =>
    LET let == program.Statements[1].Children[1]
        init == ReturnOf(<<1, 1, 1>>)
    IN (/\ let.Type.Identifier \in table.types
        /\ let.Identifier.Identifier \notin DOMAIN EntryOf(<<>>).vars
        /\ init.err = NoError
        /\ TypeOf(init.val) = let.Type.Identifier) =>
         /\ evalErr = NoError
         /\ Returns(<<2, 1>>) # {}
         /\ ReturnOf(<<2, 1>>).err = NoError
         /\ ReturnOf(<<2, 1>>).val = init.val

\* let x: number = 1 + 2; x; gave Number(3)
C11_Witness ==
  /\ epc = "returned"
  /\ program =
       RootOf(<<StatementNode(<<LetNode(TypeNumber, "x",
                                        <<OperatorNode("+", <<N1, N2>>)>>)>>),
                StatementNode(<<Idx>>)>>)
  /\ evalErr = NoError
  /\ ReturnOf(<<2, 1>>).val = Number(3)

NodeEvals(type) ==
  {i \in DOMAIN walk :
     walk[i].ev = "eval" /\ SubNode(program, walk[i].path).type = type}

Invokes(path) ==
  {i \in DOMAIN walk : walk[i].ev = "invoke" /\ walk[i].path = path}

\* every child of the node at path returned a value without error
ChildrenReturned(path) ==
  \A k \in 1..Len(SubNode(program, path).Children) :
    /\ Returns(Append(path, k)) # {}
    /\ ReturnOf(Append(path, k)).err = NoError

\* the values the children returned, in child order
ChildValues(path) ==
  [k \in 1..Len(SubNode(program, path).Children) |-> ReturnOf(Append(path, k)).val]

OperatorResolution(i) ==
  LET path == walk[i].path
      node == SubNode(program, path)
      args == ChildValues(path)
      matches ==
        {e \in table.operators :
           e.symbol = node.Operator /\ e.operands = Types(args)}
  IN (ChildrenReturned(path) /\ \A k \in DOMAIN args : args[k] # Nil) =>
       IF matches = {}
       THEN /\ ReturnOf(path).err = UnknownOperator(node)
            /\ Invokes(path) = {}
       ELSE /\ Cardinality(Invokes(path)) = 1
            /\ \A j \in Invokes(path) :
                 /\ walk[j].args = args
                 /\ \E e \in matches : walk[j].invokable = e.invokable
                 /\ \A e \in matches : walk[j].invokable = e.invokable

\* C12: an Operator whose children all yielded values is resolved by its
\* symbol and the exact ordered list of their types: without a matching
\* entry it fails with UnknownOperator carrying the Operator node and
\* nothing is invoked; with one, that entry's implementation is invoked
\* once, on the values in child order.
C12_OperatorResolution ==
  epc # "idle" => \A i \in NodeEvals("Operator") : OperatorResolution(i)

\* 1 + "a"
C12_Witness ==
  /\ epc = "returned"
  /\ program = OperatorNode("+", <<N1, Sa>>)
  /\ evalErr = UnknownOperator(program)
  /\ Invokes(<<>>) = {}

\* the name of the Identifier or Assignment entered at walk[i] has no
\* binding when the node is entered
Unbound(i) ==
  LET node == SubNode(program, walk[i].path)
      name == IF node.type = "Identifier" THEN node.Identifier
              ELSE node.Identifier.Identifier
  IN name \notin DOMAIN walk[i].vars

FailsUnknownIdentifier(i, identifier) ==
  LET ret == ReturnOf(walk[i].path)
  IN /\ ret.err = UnknownIdentifier(identifier)
     /\ ret.vars = walk[i].vars

\* C13 as stated: every Identifier reference and every Assignment whose
\* name has no binding returns UnknownIdentifier carrying its identifier
\* node, the bindings unchanged.
C13_Original ==
  epc = "returned" =>
    /\ \A i \in NodeEvals("Identifier") :
         (Unbound(i) /\ Returns(walk[i].path) # {}) =>
           FailsUnknownIdentifier(i, SubNode(program, walk[i].path))
    /\ \A i \in NodeEvals("Assignment") :
         (Unbound(i) /\ Returns(walk[i].path) # {}) =>
           FailsUnknownIdentifier(i, SubNode(program, walk[i].path).Identifier)

\* C13: a reference to an unbound name, and an Assignment to an unbound
\* name whose single value child evaluated without error, return
\* UnknownIdentifier carrying the identifier node and leave the bindings
\* unchanged; an Assignment whose value child failed returns the child's
\* error, and one without exactly one value returns the arity error.
C13_UnknownIdentifier ==
  epc = "returned" =>
    /\ \A i \in NodeEvals("Identifier") :
         (Unbound(i) /\ Returns(walk[i].path) # {}) =>
           FailsUnknownIdentifier(i, SubNode(program, walk[i].path))
    /\ \A i \in NodeEvals("Assignment") :
         LET path == walk[i].path
             node == SubNode(program, path)
         IN (Unbound(i) /\ Returns(path) # {}) =>
              /\ ReturnOf(path).vars = walk[i].vars
              /\ IF ~ChildrenReturned(path)
                 THEN \E k \in 1..Len(node.Children) :
                        /\ Returns(Append(path, k)) # {}
                        /\ ReturnOf(Append(path, k)).err # NoError
                        /\ ReturnOf(path).err = ReturnOf(Append(path, k)).err
                 ELSE IF Len(node.Children) # 1
                 THEN ReturnOf(path).err.type = "error"
                 ELSE ReturnOf(path).err = UnknownIdentifier(node.Identifier)

\* x = 1 with x undeclared
C13_Witness ==
  /\ epc = "returned"
  /\ program = AssignmentNode("x", <<N1>>)
  /\ "x" \notin DOMAIN table.vars
  /\ evalErr = UnknownIdentifier(Idx)

\* C14: a FunctionCall whose callee is not a registered function returns
\* UnknownIdentifier carrying the referencing node (the FunctionCall or its
\* identifier).
C14_UnknownFunction ==
  epc = "returned" =>
    \A i \in NodeEvals("FunctionCall") :
      LET path == walk[i].path
          node == SubNode(program, path)
      IN (/\ ChildrenReturned(path)
          /\ node.Identifier.Identifier \notin table.functions
          /\ Returns(path) # {}) =>
           ReturnOf(path).err \in
             {UnknownIdentifier(node), UnknownIdentifier(node.Identifier)}

\* every binding that holds a value holds one of its declared type
WellTyped(bindings) ==
  \A name \in DOMAIN bindings :
    bindings[name].value # Nil => TypeOf(bindings[name].value) = bindings[name].type

\* the Assignment entered at walk[i] got one value of another type than
\* its binding declares
MismatchedAssignment(i) ==
  LET path == walk[i].path
      node == SubNode(program, path)
      name == node.Identifier.Identifier
      value == ReturnOf(Append(path, 1)).val
  IN /\ Len(node.Children) = 1
     /\ ChildrenReturned(path)
     /\ name \in DOMAIN walk[i].vars
     /\ value # Nil
     /\ TypeOf(value) # walk[i].vars[name].type

\* the Let entered at walk[i], of a registered type and a fresh name, got an
\* initializer value of another type
MismatchedLet(i) ==
  LET path == walk[i].path
      node == SubNode(program, path)
      value == ReturnOf(Append(path, 1)).val
  IN /\ Len(node.Children) = 1
     /\ ChildrenReturned(path)
     /\ node.Type.Identifier \in table.types
     /\ node.Identifier.Identifier \notin DOMAIN walk[i].vars
     /\ value # Nil
     /\ TypeOf(value) # node.Type.Identifier

\* C15: every binding that holds a value holds one of its declared type,
\* at every return and between calls; an Assignment or Let initializer of
\* another type returns InvalidType carrying the identifier node and the
\* binding keeps the value it had (none, for the binding the Let created).
C15_TypeSafety ==
  /\ WellTyped(table.vars)
  /\ \A i \in DOMAIN walk : walk[i].ev = "return" => WellTyped(walk[i].vars)
  /\ epc = "returned" =>
       /\ \A i \in NodeEvals("Assignment") :
            LET path == walk[i].path
                node == SubNode(program, path)
                name == node.Identifier.Identifier
            IN MismatchedAssignment(i) =>
                 /\ ReturnOf(path).err = InvalidType(node.Identifier)
                 /\ ReturnOf(path).vars[name] = walk[i].vars[name]
       /\ \A i \in NodeEvals("Let") :
            LET path == walk[i].path
                node == SubNode(program, path)
                name == node.Identifier.Identifier
            IN MismatchedLet(i) =>
                 /\ ReturnOf(path).err = InvalidType(node.Identifier)
                 /\ ReturnOf(path).vars[name] =
                      [type |-> node.Type.Identifier, value |-> Nil]

\* x = "a" where x is a number holding 3
C15_Witness ==
  /\ epc = "returned"
  /\ program = AssignmentNode("x", <<Sa>>)
  /\ evalErr = InvalidType(Idx)
  /\ "x" \in DOMAIN table.vars
  /\ table.vars["x"] = [type |-> TypeNumber, value |-> Number(3)]

ChildrenOf(node) ==
  IF node.type = "Root" THEN node.Statements
  ELSE IF IsParent(node) THEN node.Children
  ELSE <<>>

EvalAt(path) == CHOOSE i \in Evals(path) : TRUE
ReturnAt(path) == CHOOSE i \in Returns(path) : TRUE

ContainerEvals ==
  {i \in DOMAIN walk :
     /\ walk[i].ev = "eval"
     /\ LET node == SubNode(program, walk[i].path)
        IN IsParent(node) \/ node.type = "Root"}

\* the first child of the node at path that returned an error; one more
\* than the number of children when none did
FirstFailedChild(path) ==
  LET n == Len(ChildrenOf(SubNode(program, path)))
      failed == {k \in 1..n : /\ Returns(Append(path, k)) # {}
                              /\ ReturnOf(Append(path, k)).err # NoError}
  IN IF failed = {} THEN n + 1 ELSE CHOOSE k \in failed : \A j \in failed : k <= j

LeftToRight(path) ==
  LET n == Len(ChildrenOf(SubNode(program, path)))
      f == FirstFailedChild(path)
      last == IF f > n THEN n ELSE f
  IN /\ \A k \in 1..last :
          /\ Evals(Append(path, k)) # {} /\ Returns(Append(path, k)) # {}
          /\ EvalAt(path) < EvalAt(Append(path, k))
          /\ EvalAt(Append(path, k)) < ReturnAt(Append(path, k))
          /\ ReturnAt(Append(path, k)) < ReturnAt(path)
          /\ k > 1 => ReturnAt(Append(path, k - 1)) < EvalAt(Append(path, k))
     /\ \A k \in (last + 1)..n : Evals(Append(path, k)) = {}

StopsAtFailedChild(path) ==
  LET n == Len(ChildrenOf(SubNode(program, path)))
      f == FirstFailedChild(path)
  IN f <= n =>
       /\ ReturnOf(path).err = ReturnOf(Append(path, f)).err
       /\ ReturnOf(path).val = Nil
       /\ Invokes(path) = {}
       /\ ReturnOf(path).vars = ReturnOf(Append(path, f)).vars
       /\ ReturnOf(path).output = ReturnOf(Append(path, f)).output

ActsOnCollectedValues(path) ==
  LET node == SubNode(program, path)
      n == Len(ChildrenOf(node))
  IN FirstFailedChild(path) > n =>
       /\ \A j \in Invokes(path) :
            /\ walk[j].args = ChildValues(path)
            /\ n > 0 => ReturnAt(Append(path, n)) < j
       /\ (node.type = "Group" /\ n = 1) =>
            ReturnOf(path).val = ChildValues(path)[1]
       /\ (node.type \in {"Let", "Assignment"} /\ n = 1
             /\ ReturnOf(path).err = NoError) =>
            ReturnOf(path).vars[node.Identifier.Identifier].value =
              ChildValues(path)[1]

\* C16: a container other than If, and Root over its statements, evaluates
\* its children one after the other from the left before acting itself and
\* acts on their values in child order; at the first child that fails it
\* returns that child's error, evaluates no later sibling, invokes nothing
\* and leaves bindings and output as the failed child left them.
C16_ChildrenFirst ==
  epc = "returned" =>
    \A i \in ContainerEvals :
      /\ LeftToRight(walk[i].path)
      /\ StopsAtFailedChild(walk[i].path)
      /\ ActsOnCollectedValues(walk[i].path)

\* x + 1 with x undeclared
C16_Witness ==
  /\ epc = "returned"
  /\ program = OperatorNode("+", <<Idx, N1>>)
  /\ evalErr = UnknownIdentifier(Idx)
  /\ Evals(<<1>>) # {}
  /\ Evals(<<2>>) = {}
  /\ Invokes(<<>>) = {}

NumberInvokes ==
  {j \in DOMAIN walk :
     walk[j].ev = "invoke" /\ walk[j].invokable \in {"AddNumbers", "SubtractNumbers"}}

\* the outcome of the invocation started at walk[j]
InvokedAfter(j) ==
  walk[CHOOSE m \in DOMAIN walk :
         /\ m > j /\ walk[m].ev = "invoked" /\ walk[m].path = walk[j].path
         /\ \A l \in (j + 1)..(m - 1) : walk[l].ev # "invoked" \/ walk[l].path # walk[j].path]

\* C17: whenever Evaluate invokes AddNumbers or SubtractNumbers, the
\* argument list is exactly two Numbers, the values of the operator's left
\* and right child; the invocation does not fail and the operator yields
\* Number(left + right) resp. Number(left - right).
C17_NumberOperands ==
  \A j \in NumberInvokes :
    LET path == walk[j].path
        args == walk[j].args
        left == ReturnOf(Append(path, 1)).val
        right == ReturnOf(Append(path, 2)).val
    IN /\ Len(args) = 2
       /\ IsNumber(args[1]) /\ IsNumber(args[2])
       /\ SubNode(program, path).type = "Operator"
       /\ Len(SubNode(program, path).Children) = 2
       /\ args = <<left, right>>
       /\ InvokedAfter(j).err = NoError
       /\ ReturnOf(path).err = NoError
       /\ ReturnOf(path).val =
            IF walk[j].invokable = "AddNumbers"
            THEN Number(left.num + right.num)
            ELSE Number(left.num - right.num)

\* 2 - 1
C17_Witness ==
  /\ epc = "returned"
  /\ program = OperatorNode("-", <<N2, N1>>)
  /\ NumberInvokes # {}
  /\ evalErr = NoError
  /\ ReturnOf(<<>>).val = Number(1)

IsParenOpen(l) == l.Type = LParenOpen
IsParenClose(l) == l.Type = LParenClose

\* C18: after a successful transition into semicolon the node stack is
\* exactly the Root frame, and Parse returns no error only when the input
\* has as many parenClose as parenOpen lexemes.
C18_Balanced ==
  /\ (/\ dfaState = LSemiColon
      /\ current.Type = LSemiColon
      /\ pc = "parsing" \/ (pc = "returned" /\ err = NoError)) =>
       nodeStack = <<<<>>>>
  /\ (pc = "returned" /\ err = NoError) =>
       Len(SelectSeq(lexed, IsParenOpen)) = Len(SelectSeq(lexed, IsParenClose))

\* C19: as long as the input holds no lexeme other than whitespace the
\* machine makes no transition and stays in start, the tree is a Root
\* without statements, and Parse returns UnterminatedStatement.
C19_WhitespaceOnly ==
  (pc \in {"parsing", "returned"} /\ NonWs = <<>>) =>
    /\ dfaState = start
    /\ current = NoLexeme
    /\ nodeStack = <<<<>>>>
    /\ root = RootNode
    /\ root.Statements = <<>>
    /\ pc = "parsing" => err = NoError
    /\ pc = "returned" => err = UnterminatedStatement

\* whitespace only
C19_Witness ==
  /\ pc = "returned"
  /\ Len(lexed) >= 2
  /\ NonWs = <<>>
  /\ err = UnterminatedStatement
  /\ root.Statements = <<>>

\* the initializer of the Let at path failed: its error is the Let's, before
\* the type is looked at, and no binding is made
FailedInitializer(i) ==
  LET path == walk[i].path
      node == SubNode(program, path)
      init == ReturnOf(Append(path, 1))
  IN (/\ Len(node.Children) >= 1
      /\ Returns(Append(path, 1)) # {}
      /\ init.err # NoError) =>
       /\ ReturnOf(path).err = init.err
       /\ ReturnOf(path).vars = init.vars
       /\ node.Identifier.Identifier \notin DOMAIN walk[i].vars =>
            node.Identifier.Identifier \notin DOMAIN ReturnOf(path).vars

\* the initializer's value is refused by Set after Define succeeded: the
\* error is returned and the binding stays, declared and without value
RefusedInitializer(i) ==
  LET path == walk[i].path
      node == SubNode(program, path)
      name == node.Identifier.Identifier
  IN MismatchedLet(i) =>
       /\ ReturnOf(path).err = InvalidType(node.Identifier)
       /\ name \in DOMAIN ReturnOf(path).vars
       /\ ReturnOf(path).vars[name] = [type |-> node.Type.Identifier, value |-> Nil]

\* a Let of a registered type whose name is bound already
Redeclared(i) ==
  LET path == walk[i].path
      node == SubNode(program, path)
  IN (/\ Len(node.Children) <= 1
      /\ ChildrenReturned(path)
      /\ node.Type.Identifier \in table.types
      /\ node.Identifier.Identifier \in DOMAIN walk[i].vars) =>
       /\ ReturnOf(path).err = AlreadyDefined
       /\ ReturnOf(path).vars = walk[i].vars

\* C20: a Let whose initializer fails returns that error and creates no
\* binding; a Let of a registered type and fresh name whose initializer
\* value has another type returns InvalidType while the new binding stays
\* defined; a Let of a name that is bound fails as already defined.
C20_LetNotAtomic ==
  epc = "returned" =>
    \A i \in NodeEvals("Let") :
      /\ FailedInitializer(i)
      /\ RefusedInitializer(i)
      /\ Redeclared(i)

\* let x: string = 1 on a table without x
C20_Witness ==
  /\ epc = "returned"
  /\ program = LetNode(TypeString, "x", <<N1>>)
  /\ "x" \notin DOMAIN EntryOf(<<>>).vars
  /\ evalErr = InvalidType(Idx)
  /\ "x" \in DOMAIN table.vars
  /\ table.vars["x"] = [type |-> TypeString, value |-> Nil]
====
